---- MODULE Spec2Model ----
(***************************************************************************)
(* A model of macro_analysis.py: the reporter registry, the average-gdp    *)
(* reporter, the CSV loaders and the command line driver.                  *)
(*                                                                         *)
(* Representation of Python values                                         *)
(*   str / None / list   records [kind, v] (Str, None, List)               *)
(*   dict                sequence of items [k, v] in insertion order       *)
(*   float               [nan, num, den]: a NaN or the rational num/den    *)
(*   text                sequence of lines, a line a sequence of pieces    *)
(*                       (the pieces an f-string is assembled from)        *)
(*   exception           [ok |-> FALSE, type, msg]; a returned value is    *)
(*                       [ok |-> TRUE, value]                              *)
(***************************************************************************)
EXTENDS Integers, Sequences, FiniteSets, TLC

VARIABLES
    reporters,    \* ReporterFactory._reporters: dict name -> reporter class
    instances,    \* number of reporter objects constructed so far
    fs,           \* the file system: path -> file
    argv,         \* sys.argv[1:], a sequence of options
    pc,           \* position of main
    args,         \* the namespace parse_arguments returned
    idx,          \* read_csv_files: number of filepaths the loop has taken
    all_data,     \* read_csv_files: all_data
    errors,       \* read_csv_files: errors
    data,         \* main: data
    reporter,     \* main: reporter
    report_data,  \* main: report_data
    table,        \* main: the value of reporter.format(report_data)
    exc,          \* the exception in flight, or NoExc
    stdout,       \* what was written to sys.stdout, in order
    stderr,       \* what was written to sys.stderr, in order
    exit_code,    \* <<status>> once the process has ended, <<>> before
    calls,        \* number of direct calls made
    result        \* the last direct call: function, argument, outcome

vars == << reporters, instances, fs, argv, pc, args, idx, all_data, errors,
           data, reporter, report_data, table, exc, stdout, stderr,
           exit_code, calls, result >>

-----------------------------------------------------------------------------
(* Bounds *)

MaxRows == 3        \* rows of a dataset handed to generate
MaxRecords == 2     \* data records of a file handed to read_csv_file
MaxFiles == 3       \* paths after --files
MaxRegister == 3    \* register calls in a run of the registry

-----------------------------------------------------------------------------
(* Python values *)

Str(s) == [kind |-> "str", v |-> <<s>>]
None == [kind |-> "None", v |-> <<>>]
List(l) == [kind |-> "list", v |-> l]

Ok(v) == [ok |-> TRUE, value |-> v]
Raise(type, msg) == [ok |-> FALSE, type |-> type, msg |-> msg]
NoExc == [ok |-> TRUE, value |-> <<>>]

Line(pieces) == << pieces >>

Reverse(s) == [i \in 1..Len(s) |-> s[Len(s) + 1 - i]]

RECURSIVE Flatten(_)
Flatten(ss) == IF ss = <<>> THEN <<>> ELSE Head(ss) \o Flatten(Tail(ss))

(* dict *)
DictHas(d, k) == \E i \in 1..Len(d) : d[i].k = k
DictGet(d, k) == d[CHOOSE i \in 1..Len(d) : d[i].k = k].v
DictSet(d, k, v) ==
    IF DictHas(d, k)
    THEN [i \in 1..Len(d) |-> IF d[i].k = k THEN [k |-> k, v |-> v] ELSE d[i]]
    ELSE Append(d, [k |-> k, v |-> v])
DictKeys(d) == [i \in 1..Len(d) |-> d[i].k]
DictValues(d) == [i \in 1..Len(d) |-> d[i].v]

(* float *)
Num(n) == [nan |-> FALSE, num |-> n, den |-> 1]
NaN == [nan |-> TRUE, num |-> 0, den |-> 1]
FAdd(x, y) ==
    IF x.nan \/ y.nan THEN NaN
    ELSE [nan |-> FALSE, num |-> x.num * y.den + y.num * x.den, den |-> x.den * y.den]
FDiv(x, n) == IF x.nan THEN NaN ELSE [nan |-> FALSE, num |-> x.num, den |-> x.den * n]
FLt(x, y) == ~x.nan /\ ~y.nan /\ x.num * y.den < y.num * x.den
FEq(x, y) == ~x.nan /\ ~y.nan /\ x.num * y.den = y.num * x.den

\* The str cells float() accepts in this model, with their values; float()
\* raises ValueError on every other str and TypeError on None.
FloatLiterals ==
    [s \in {"1", "2", "2.0", "3", "nan"} |->
        CASE s = "1" -> Num(1)
          [] s = "2" -> Num(2)
          [] s = "2.0" -> Num(2)
          [] s = "3" -> Num(3)
          [] s = "nan" -> NaN]
float(x) ==
    IF x.kind = "str"
    THEN IF x.v[1] \in DOMAIN FloatLiterals
         THEN Ok(FloatLiterals[x.v[1]])
         ELSE Raise("ValueError", Line(<<"could not convert string to float: ", x.v[1]>>))
    ELSE Raise("TypeError", Line(<<"float() argument must be a string or a real number">>))

RECURSIVE sum(_)
sum(gdps) == IF gdps = <<>> THEN Num(0) ELSE FAdd(sum(SubSeq(gdps, 1, Len(gdps) - 1)), gdps[Len(gdps)])

\* str(x) as an f-string interpolates it
str(x) == IF x.kind = "str" THEN x.v[1] ELSE IF x.kind = "None" THEN "None" ELSE "[...]"

-----------------------------------------------------------------------------
(* list.sort(key=lambda x: x[1], reverse=True) on a short list: the list is *)
(* reversed, sorted ascending by binary insertion after the leading run,    *)
(* using only "<" on the keys, and reversed again.                          *)

KeyLt(x, y) == FLt(x[2], y[2])

RECURSIVE run_len(_, _, _)
run_len(a, n, desc) ==
    IF n < Len(a) /\ (KeyLt(a[n + 1], a[n]) = desc) THEN run_len(a, n + 1, desc) ELSE n

count_run(a) ==
    IF Len(a) < 2 THEN [n |-> Len(a), descending |-> FALSE]
    ELSE LET desc == KeyLt(a[2], a[1])
         IN [n |-> run_len(a, 2, desc), descending |-> desc]

RECURSIVE bisect(_, _, _, _)
bisect(a, pivot, l, r) ==
    LET p == l + ((r - l) \div 2)
        isLt == KeyLt(pivot, a[p + 1])
        l2 == IF isLt THEN l ELSE p + 1
        r2 == IF isLt THEN p ELSE r
    IN IF l2 < r2 THEN bisect(a, pivot, l2, r2) ELSE l2

RECURSIVE binarysort(_, _)
binarysort(a, start) ==
    IF start >= Len(a) THEN a
    ELSE LET pivot == a[start + 1]
             pos == bisect(a, pivot, 0, start)
             b == [i \in 1..Len(a) |->
                     IF i <= pos THEN a[i]
                     ELSE IF i = pos + 1 THEN pivot
                     ELSE IF i <= start + 1 THEN a[i - 1]
                     ELSE a[i]]
         IN binarysort(b, start + 1)

sort_reverse(averages) ==
    LET a == Reverse(averages)
        run == count_run(a)
        a1 == IF run.descending
              THEN Reverse(SubSeq(a, 1, run.n)) \o SubSeq(a, run.n + 1, Len(a))
              ELSE a
    IN Reverse(binarysort(a1, run.n))

-----------------------------------------------------------------------------
(* AverageGDPReporter *)

COUNTRY == Str("country")
GDP == Str("gdp")

SchemaError == Raise("ValueError", Line(<<"CSV must contain 'country' and 'gdp' columns">>))
InvalidValue(row) ==
    Raise("ValueError",
          Line(<<"Invalid GDP value: ", IF DictHas(row, GDP) THEN str(DictGet(row, GDP)) ELSE "None">>))

\* mutant of append_gdp: the list of a country is replaced, not appended to
append_gdp_overwrite(country_gdp, country, gdp) == DictSet(country_gdp, country, <<gdp>>)

\* the body of the loop over the rows: country_gdp[row['country']].append(gdp)
append_gdp(country_gdp, country, gdp) ==
    DictSet(country_gdp, country,
            Append(IF DictHas(country_gdp, country) THEN DictGet(country_gdp, country) ELSE <<>>, gdp))

\* mutant of accumulate: a row without the keys is passed over
RECURSIVE accumulate_skip(_, _)
accumulate_skip(rows, country_gdp) ==
    IF rows = <<>> THEN Ok(country_gdp)
    ELSE LET row == Head(rows) IN
         IF ~DictHas(row, COUNTRY) \/ ~DictHas(row, GDP)
         THEN accumulate_skip(Tail(rows), country_gdp)
         ELSE LET gdp == float(DictGet(row, GDP)) IN
              IF ~gdp.ok THEN InvalidValue(row)
              ELSE accumulate_skip(Tail(rows), append_gdp(country_gdp, DictGet(row, COUNTRY), gdp.value))

\* the loop over the rows: the dict it leaves, or the exception it raises
RECURSIVE accumulate(_, _)
accumulate(rows, country_gdp) ==
    IF rows = <<>> THEN Ok(country_gdp)
    ELSE LET row == Head(rows) IN
         IF ~DictHas(row, COUNTRY) \/ ~DictHas(row, GDP) THEN SchemaError
         ELSE LET gdp == float(DictGet(row, GDP)) IN
              IF ~gdp.ok THEN InvalidValue(row)
              ELSE accumulate(Tail(rows), append_gdp(country_gdp, DictGet(row, COUNTRY), gdp.value))

\* avg_gdp = sum(gdps) / len(gdps)
avg_gdp(gdps) == FDiv(sum(gdps), Len(gdps))

calc_averages(country_gdp) ==
    [i \in 1..Len(country_gdp) |-> << country_gdp[i].k, avg_gdp(country_gdp[i].v) >>]

generate(rows) ==
    LET acc == accumulate(rows, <<>>) IN
    IF ~acc.ok THEN acc
    ELSE Ok(sort_reverse(calc_averages(acc.value)))

\* f"{avg_gdp:.2f}": the number of hundredths nearest to avg_gdp, ties to even
Fmt2(x) ==
    IF x.nan THEN [nan |-> TRUE, hundredths |-> 0]
    ELSE LET q == (100 * x.num) \div x.den
             r2 == 2 * ((100 * x.num) % x.den)
         IN [nan |-> FALSE,
             hundredths |-> IF r2 > x.den \/ (r2 = x.den /\ q % 2 = 1) THEN q + 1 ELSE q]

Headers == <<"Country", "Average GDP (billions USD)">>

format(rd) ==
    [headers |-> Headers,
     table_data |-> [i \in 1..Len(rd) |-> << rd[i][1], Fmt2(rd[i][2]) >>],
     tablefmt |-> "grid"]

-----------------------------------------------------------------------------
(* Files.  A file is missing, unreadable (open raises an OSError other than *)
(* FileNotFoundError), or text: the sequence of records csv.reader yields,  *)
(* a record being the sequence of its cells and a blank line the empty      *)
(* record.  OverlongRecord stands for a line csv.reader raises csv.Error on *)
(* (a field larger than the field size limit).                              *)

Missing == [kind |-> "missing", records |-> <<>>]
Denied == [kind |-> "denied", records |-> <<>>]
Text(records) == [kind |-> "text", records |-> records]
OverlongRecord == <<"<field larger than field limit>">>

\* csv.DictReader.__next__: dict(zip(fieldnames, row)), the surplus cells
\* under restkey None, the missing ones filled with restval None
RECURSIVE zip_dict(_, _, _)
zip_dict(fieldnames, row, d) ==
    IF fieldnames = <<>> \/ row = <<>> THEN d
    ELSE zip_dict(Tail(fieldnames), Tail(row), DictSet(d, Str(Head(fieldnames)), Str(Head(row))))

RECURSIVE fill_restval(_, _)
fill_restval(keys, d) ==
    IF keys = <<>> THEN d ELSE fill_restval(Tail(keys), DictSet(d, Str(Head(keys)), None))

dict_row(fieldnames, row) ==
    LET d == zip_dict(fieldnames, row, <<>>)
        lf == Len(fieldnames)
        lr == Len(row)
    IN IF lf < lr THEN DictSet(d, None, List(SubSeq(row, lf + 1, lr)))
       ELSE IF lf > lr THEN fill_restval(SubSeq(fieldnames, lr + 1, lf), d)
       ELSE d

\* all(v == '' for v in row.values())
all_empty(row) == \A i \in 1..Len(row) : row[i].v = Str("")

\* for row_num, row in enumerate(reader, start=2): the rows appended to data,
\* or csv.Error; DictReader itself passes over the empty records
RECURSIVE read_rows(_, _, _)
read_rows(fieldnames, records, rows) ==
    IF records = <<>> THEN Ok(rows)
    ELSE LET rec == Head(records) IN
         IF rec = OverlongRecord THEN Raise("csv.Error", Line(<<"field larger than field limit (131072)">>))
         ELSE IF rec = <<>> THEN read_rows(fieldnames, Tail(records), rows)
         ELSE LET row == dict_row(fieldnames, rec) IN
              IF all_empty(row) THEN read_rows(fieldnames, Tail(records), rows)
              ELSE read_rows(fieldnames, Tail(records), Append(rows, row))

ParseError(filepath, e) ==
    Raise("ValueError", Line(<<"Error parsing CSV file '", filepath, "': ">> \o e.msg[1]))
NoHeaders(filepath) == Raise("ValueError", Line(<<"CSV file '", filepath, "' has no headers">>))
EmptyDataset(filepath) == Raise("ValueError", Line(<<"No data found in file '", filepath, "'">>))

read_csv_file(files, filepath) ==
    LET f == files[filepath] IN
    IF f.kind = "missing"
    THEN Raise("FileNotFoundError", Line(<<"[Errno 2] No such file or directory: '", filepath, "'">>))
    ELSE IF f.kind = "denied"
    THEN Raise("PermissionError", Line(<<"[Errno 13] Permission denied: '", filepath, "'">>))
    ELSE IF f.records = <<>> THEN NoHeaders(filepath)        \* fieldnames is None
    ELSE IF Head(f.records) = OverlongRecord
    THEN ParseError(filepath, Raise("csv.Error", Line(<<"field larger than field limit (131072)">>)))
    ELSE IF Head(f.records) = <<>> THEN NoHeaders(filepath)  \* fieldnames is []
    ELSE LET rd == read_rows(Head(f.records), Tail(f.records), <<>>) IN
         IF ~rd.ok THEN ParseError(filepath, rd)
         ELSE IF rd.value = <<>> THEN EmptyDataset(filepath)
         ELSE Ok(rd.value)

\* mutant of read_one: "except Exception" stands first and takes every failure
read_one_generic(files, filepath, all, errs) ==
    LET r == read_csv_file(files, filepath) IN
    IF r.ok THEN [all_data |-> all \o r.value, errors |-> errs]
    ELSE [all_data |-> all,
          errors |-> Append(errs, Line(<<"Error reading ", filepath, ": ">> \o r.msg[1]))]

\* mutant of read_one: all_data is assigned the rows of the file, not extended
read_one_assign(files, filepath, all, errs) ==
    LET r == read_csv_file(files, filepath) IN
    IF r.ok THEN [all_data |-> r.value, errors |-> errs]
    ELSE IF r.type = "FileNotFoundError"
    THEN [all_data |-> all, errors |-> Append(errs, Line(<<"File not found: ", filepath>>))]
    ELSE [all_data |-> all,
          errors |-> Append(errs, Line(<<"Error reading ", filepath, ": ">> \o r.msg[1]))]

\* the body of the loop of read_csv_files for one filepath: the new
\* (all_data, errors).  Only Exception and its subclasses are caught.
read_one(files, filepath, all, errs) ==
    LET r == read_csv_file(files, filepath) IN
    IF r.ok THEN [all_data |-> all \o r.value, errors |-> errs]
    ELSE IF r.type = "FileNotFoundError"
    THEN [all_data |-> all, errors |-> Append(errs, Line(<<"File not found: ", filepath>>))]
    ELSE [all_data |-> all,
          errors |-> Append(errs, Line(<<"Error reading ", filepath, ": ">> \o r.msg[1]))]

\* "\n".join(errors): the lines of the entries, one after the other
join_lines(texts) == Flatten(texts)

\* ", ".join(names)
RECURSIVE join_comma(_)
join_comma(names) ==
    IF names = <<>> THEN <<>>
    ELSE IF Len(names) = 1 THEN names
    ELSE <<Head(names), ", ">> \o join_comma(Tail(names))

-----------------------------------------------------------------------------
(* ReporterFactory *)

register(registry, name, reporter_class) == DictSet(registry, name, reporter_class)

UnknownReport(registry, name) ==
    Raise("ValueError",
          Line(<<"Unknown report '", name, "'. Available reports: ">> \o join_comma(DictKeys(registry))))

\* mutant of create: an unknown name falls back to the first registered class
create_fallback(registry, name, n) ==
    IF ~DictHas(registry, name) THEN Ok([cls |-> registry[1].v, id |-> n + 1])
    ELSE Ok([cls |-> DictGet(registry, name), id |-> n + 1])

\* create(name): the exception, or the object constructed, the n-th of the run
create(registry, name, n) ==
    IF ~DictHas(registry, name) THEN UnknownReport(registry, name)
    ELSE Ok([cls |-> DictGet(registry, name), id |-> n + 1])

-----------------------------------------------------------------------------
(* The command line *)

SystemExit(code, stream, msg) ==
    [ok |-> FALSE, type |-> "SystemExit", msg |-> msg, code |-> code, stream |-> stream]

Option(opt, vals) == [opt |-> opt, vals |-> vals]

Usage == <<"usage: prog [-h] --files FILES [FILES ...] --report {choices}">>
UsageError(pieces) == SystemExit(2, "stderr", <<Usage, pieces>>)

\* ArgumentParser.parse_args on the options left to right: -h prints the
\* help and exits at once, a bad value is an error where it stands, a
\* required option that never came is an error at the end.
RECURSIVE parse_args(_, _, _)
parse_args(options, ns, choices) ==
    IF options = <<>>
    THEN IF ns.files = None \/ ns.report = None
         THEN UsageError(<<"error: the following arguments are required: ">>
                         \o join_comma((IF ns.files = None THEN <<"--files">> ELSE <<>>)
                                       \o (IF ns.report = None THEN <<"--report">> ELSE <<>>)))
         ELSE Ok(ns)
    ELSE LET o == Head(options) IN
         IF o.opt = "-h" THEN SystemExit(0, "stdout", <<Usage, <<"Examples: ...">> >>)
         ELSE IF o.opt = "--files"
         THEN IF o.vals = <<>>
              THEN UsageError(<<"error: argument --files: expected at least one argument">>)
              ELSE parse_args(Tail(options), [ns EXCEPT !.files = List(o.vals)], choices)
         ELSE IF \E i \in 1..Len(choices) : choices[i] = o.vals[1]
              THEN parse_args(Tail(options), [ns EXCEPT !.report = Str(o.vals[1])], choices)
              ELSE UsageError(<<"error: argument --report: invalid choice: ", o.vals[1], " (choose from ">>
                              \o join_comma(choices) \o <<")">>)

EmptyNamespace == [files |-> None, report |-> None]

parse_arguments(options, registry) == parse_args(options, EmptyNamespace, DictKeys(registry))

\* the classes Exception is a base of, among those raised here
IsException(type) ==
    type \in {"ValueError", "FileNotFoundError", "PermissionError", "TypeError", "BrokenPipeError", "csv.Error"}

-----------------------------------------------------------------------------
(* Initial states *)

NoResult == [fn |-> "", arg |-> <<>>, ret |-> NoExc]
NoReporter == [cls |-> "", id |-> 0]

\* the registry once the module is imported: the decorator on AverageGDPReporter
Imported == register(<<>>, "average-gdp", "AverageGDPReporter")

Idle ==
    /\ reporters = Imported
    /\ instances = 0
    /\ calls = 0
    /\ args = EmptyNamespace
    /\ idx = 0
    /\ all_data = <<>>
    /\ errors = <<>>
    /\ reporter = NoReporter
    /\ report_data = <<>>
    /\ table = None
    /\ exc = NoExc
    /\ stdout = <<>>
    /\ stderr = <<>>
    /\ exit_code = <<>>
    /\ result = NoResult

SeqsUpTo(S, n) == UNION {[1..k -> S] : k \in 0..n}

\* the files of the runs of main
MainFS ==
    [p \in {"missing.csv", "denied.csv", "empty.csv", "a.csv", "b.csv", "other.csv"} |->
        CASE p = "missing.csv" -> Missing
          [] p = "denied.csv" -> Denied
          [] p = "empty.csv" -> Text(<< <<"country", "gdp">>, <<"", "">> >>)
          [] p = "a.csv" -> Text(<< <<"country", "gdp">>, <<"A", "1">>, <<>>, <<"B", "3">> >>)
          [] p = "b.csv" -> Text(<< <<"country", "gdp">>, <<"A", "3">> >>)
          [] p = "other.csv" -> Text(<< <<"name", "value">>, <<"A", "1">> >>)]

OptionNames == {"-h", "--files", "--report"}
ReportNames == {"average-gdp", "bogus"}

\* command lines over the given paths: each option at most once, in any order
Argvs(paths) ==
    LET orders == {o \in SeqsUpTo(OptionNames, Cardinality(OptionNames)) :
                      \A i, j \in 1..Len(o) : i # j => o[i] # o[j]}
    IN { [i \in 1..Len(o) |->
            CASE o[i] = "-h" -> Option("-h", <<>>)
              [] o[i] = "--files" -> Option("--files", l)
              [] o[i] = "--report" -> Option("--report", <<r>>)] :
         o \in orders, l \in SeqsUpTo(paths, MaxFiles), r \in ReportNames }

Init ==
    /\ Idle
    /\ pc = "parse"
    /\ fs = MainFS
    /\ data = None
    /\ argv \in Argvs(DOMAIN fs)

-----------------------------------------------------------------------------
(* main *)

print(stream, text) == Append(stream, text)

\* args = parse_arguments()
ParseArgs ==
    /\ pc = "parse"
    /\ LET r == parse_arguments(argv, reporters) IN
       IF r.ok
       THEN /\ args' = r.value
            /\ pc' = "read"
            /\ UNCHANGED << exc, stdout, stderr >>
       ELSE /\ exc' = r
            /\ pc' = "except"
            /\ stdout' = IF r.stream = "stdout" THEN print(stdout, [what |-> "help", body |-> r.msg]) ELSE stdout
            /\ stderr' = IF r.stream = "stderr" THEN print(stderr, r.msg) ELSE stderr
            /\ UNCHANGED args
    /\ UNCHANGED << reporters, instances, fs, argv, idx, all_data, errors, data,
                    reporter, report_data, table, exit_code, calls, result >>

\* print("Reading ..."), and read_csv_files up to its loop
EnterRead ==
    /\ pc = "read"
    /\ stderr' = print(stderr, Line(<<"Reading ", ToString(Len(args.files.v)), " file(s)...">>))
    /\ idx' = 0
    /\ all_data' = <<>>
    /\ errors' = <<>>
    /\ pc' = "loop"
    /\ UNCHANGED << reporters, instances, fs, argv, args, data, reporter, report_data,
                    table, exc, stdout, exit_code, calls, result >>

\* read_csv_files: one turn of "for filepath in filepaths"
ReadNext ==
    /\ pc = "loop"
    /\ idx < Len(args.files.v)
    /\ LET r == read_one(fs, args.files.v[idx + 1], all_data, errors) IN
       /\ all_data' = r.all_data
       /\ errors' = r.errors
    /\ idx' = idx + 1
    /\ UNCHANGED << reporters, instances, fs, argv, pc, args, data, reporter, report_data,
                    table, exc, stdout, stderr, exit_code, calls, result >>

\* read_csv_files after the loop, and main up to "if not data"
EndRead ==
    /\ pc = "loop"
    /\ idx = Len(args.files.v)
    /\ IF errors # <<>>
       THEN /\ exc' = Raise("ValueError", join_lines(errors))
            /\ pc' = "except"
            /\ UNCHANGED << data, stderr >>
       ELSE /\ data' = List(all_data)
            /\ IF all_data = <<>>
               THEN /\ stderr' = print(print(stderr, Line(<<"Loaded ", ToString(Len(all_data)), " records">>)),
                                       Line(<<"No data found in the provided files.">>))
                    /\ exc' = SystemExit(1, "", <<>>)
                    /\ pc' = "except"
               ELSE /\ stderr' = print(stderr, Line(<<"Loaded ", ToString(Len(all_data)), " records">>))
                    /\ pc' = "create"
                    /\ UNCHANGED exc
    /\ UNCHANGED << reporters, instances, fs, argv, args, idx, all_data, errors, reporter,
                    report_data, table, stdout, exit_code, calls, result >>

\* reporter = ReporterFactory.create(args.report)
Create ==
    /\ pc = "create"
    /\ LET r == create(reporters, args.report.v[1], instances) IN
       IF r.ok
       THEN /\ reporter' = r.value
            /\ instances' = instances + 1
            /\ pc' = "generate"
            /\ UNCHANGED exc
       ELSE /\ exc' = r
            /\ pc' = "except"
            /\ UNCHANGED << reporter, instances >>
    /\ UNCHANGED << reporters, fs, argv, args, idx, all_data, errors, data, report_data,
                    table, stdout, stderr, exit_code, calls, result >>

\* mutant of Generate: a failure of generate is swallowed and the rows
\* aggregated so far (none) go on to be formatted
GenerateSwallow ==
    /\ pc = "generate"
    /\ LET r == generate(data.v) IN
       report_data' = IF r.ok THEN r.value ELSE <<>>
    /\ pc' = "format"
    /\ UNCHANGED << reporters, instances, fs, argv, args, idx, all_data, errors, data,
                    reporter, table, exc, stdout, stderr, exit_code, calls, result >>

\* report_data = reporter.generate(data)
Generate ==
    /\ pc = "generate"
    /\ LET r == generate(data.v) IN
       IF r.ok
       THEN /\ report_data' = r.value
            /\ pc' = "format"
            /\ UNCHANGED exc
       ELSE /\ exc' = r
            /\ pc' = "except"
            /\ UNCHANGED report_data
    /\ UNCHANGED << reporters, instances, fs, argv, args, idx, all_data, errors, data,
                    reporter, table, stdout, stderr, exit_code, calls, result >>

\* reporter.format(report_data)
Format ==
    /\ pc = "format"
    /\ table' = format(report_data)
    /\ pc' = "print"
    /\ UNCHANGED << reporters, instances, fs, argv, args, idx, all_data, errors, data,
                    reporter, report_data, exc, stdout, stderr, exit_code, calls, result >>

\* print("\n" + table); main returns and the process ends with status 0
PrintReport ==
    /\ pc = "print"
    /\ stdout' = print(stdout, [what |-> "report", body |-> table])
    /\ exit_code' = <<0>>
    /\ pc' = "exited"
    /\ UNCHANGED << reporters, instances, fs, argv, args, idx, all_data, errors, data,
                    reporter, report_data, table, exc, stderr, calls, result >>

\* print raises: standard output is closed
PrintFails ==
    /\ pc = "print"
    /\ exc' = Raise("BrokenPipeError", Line(<<"[Errno 32] Broken pipe">>))
    /\ pc' = "except"
    /\ UNCHANGED << reporters, instances, fs, argv, args, idx, all_data, errors, data,
                    reporter, report_data, table, stdout, stderr, exit_code, calls, result >>

\* the user interrupts main inside its try block
Interrupt ==
    /\ pc \in {"parse", "read", "loop", "create", "generate", "format", "print"}
    /\ exc' = Raise("KeyboardInterrupt", <<>>)
    /\ pc' = "except"
    /\ UNCHANGED << reporters, instances, fs, argv, args, idx, all_data, errors, data,
                    reporter, report_data, table, stdout, stderr, exit_code, calls, result >>

\* the except clauses of main: what is printed to stderr and the exit status
\* f"{prefix}{e}"
Prefixed(prefix, text) ==
    IF text = <<>> THEN Line(<<prefix>>) ELSE << <<prefix>> \o Head(text) >> \o Tail(text)
Cancelled == << <<>>, <<"Operation cancelled by user">> >>

\* mutant of handler: no clause for KeyboardInterrupt
handler_no_interrupt(e) ==
    IF e.type = "FileNotFoundError" \/ e.type = "ValueError"
    THEN [prints |-> << Prefixed("Error: ", e.msg) >>, code |-> 1]
    ELSE IF IsException(e.type) \/ e.type = "KeyboardInterrupt"
    THEN [prints |-> << Prefixed("Unexpected error: ", e.msg) >>, code |-> 1]
    ELSE [prints |-> <<>>, code |-> e.code]

handler(e) ==
    IF e.type = "FileNotFoundError" \/ e.type = "ValueError"
    THEN [prints |-> << Prefixed("Error: ", e.msg) >>, code |-> 1]
    ELSE IF e.type = "KeyboardInterrupt"
    THEN [prints |-> << Cancelled >>, code |-> 130]
    ELSE IF IsException(e.type)
    THEN [prints |-> << Prefixed("Unexpected error: ", e.msg) >>, code |-> 1]
    ELSE [prints |-> <<>>, code |-> e.code]   \* SystemExit passes through

Except ==
    /\ pc = "except"
    /\ LET h == handler(exc) IN
       /\ stderr' = stderr \o h.prints
       /\ exit_code' = <<h.code>>
    /\ pc' = "exited"
    /\ UNCHANGED << reporters, instances, fs, argv, args, idx, all_data, errors, data,
                    reporter, report_data, table, exc, stdout, calls, result >>

Next ==
    \/ ParseArgs
    \/ EnterRead
    \/ ReadNext
    \/ EndRead
    \/ Create
    \/ Generate
    \/ Format
    \/ PrintReport
    \/ PrintFails
    \/ Interrupt
    \/ Except

Spec == Init /\ [][Next]_vars

-----------------------------------------------------------------------------
(* AverageGDPReporter().generate(data) called on its own *)

GenCountries == {"A", "B", "C"}
GenCells == {"1", "2", "2.0", "nan", "abc"}

Row2(k1, v1, k2, v2) == << [k |-> Str(k1), v |-> v1], [k |-> Str(k2), v |-> v2] >>

GenRows ==
    {Row2("country", Str(c), "gdp", Str(g)) : c \in GenCountries, g \in GenCells}
    \cup { Row2("country", Str("A"), "gdp", None),
           Row2("country", Str("A"), "year", Str("2023")),
           Row2("year", Str("2023"), "gdp", Str("1")),
           Row2("name", Str("A"), "value", Str("1")) }

InitGen ==
    /\ Idle
    /\ pc = "call"
    /\ fs = MainFS
    /\ argv = <<>>
    /\ data \in {List(d) : d \in SeqsUpTo(GenRows, MaxRows)}

GenerateCall ==
    /\ pc = "call"
    /\ calls = 0
    /\ calls' = 1
    /\ result' = [fn |-> "generate", arg |-> data.v, ret |-> generate(data.v)]
    /\ UNCHANGED << reporters, instances, fs, argv, pc, args, idx, all_data, errors, data,
                    reporter, report_data, table, exc, stdout, stderr, exit_code >>

NextGen == GenerateCall

SpecGen == InitGen /\ [][NextGen]_vars

-----------------------------------------------------------------------------
(* read_csv_file(filepath) called on its own *)

CsvPath == "data.csv"
DataLine == <<"USA", "2023", "25462">>
FirstRecords ==
    { <<>>, <<"country">>, <<"country", "gdp">>, <<"gdp", "gdp">>, DataLine, OverlongRecord }
CsvCells == {"", "1"}
DataRecords(first) == SeqsUpTo(CsvCells, Len(first) + 1) \cup {OverlongRecord}

CsvFiles(n) ==
    {Missing, Denied, Text(<<>>)}
    \cup UNION { {Text(<<first>> \o rest) : rest \in SeqsUpTo(DataRecords(first), n)} :
                 first \in FirstRecords }

InitCsv ==
    /\ Idle
    /\ pc = "call"
    /\ argv = <<>>
    /\ data = None
    /\ fs \in {[p \in {CsvPath} |-> f] : f \in CsvFiles(MaxRecords)}

ReadCsvFileCall ==
    /\ pc = "call"
    /\ calls = 0
    /\ calls' = 1
    /\ result' = [fn |-> "read_csv_file", arg |-> CsvPath, ret |-> read_csv_file(fs, CsvPath)]
    /\ UNCHANGED << reporters, instances, fs, argv, pc, args, idx, all_data, errors, data,
                    reporter, report_data, table, exc, stdout, stderr, exit_code >>

NextCsv == ReadCsvFileCall

SpecCsv == InitCsv /\ [][NextCsv]_vars

-----------------------------------------------------------------------------
(* ReporterFactory.register and ReporterFactory.create called on their own *)

FactoryNames == {"average-gdp", "top-gdp", "bogus"}
FactoryClasses == {"AverageGDPReporter", "TopGDPReporter"}

InitFactory ==
    /\ Idle
    /\ pc = "call"
    /\ fs = MainFS
    /\ argv = <<>>
    /\ data = None

RegisterCall ==
    /\ pc = "call"
    /\ calls < MaxRegister
    /\ \E name \in FactoryNames, cls \in FactoryClasses :
        /\ reporters' = register(reporters, name, cls)
        /\ result' = [fn |-> "register", arg |-> name, ret |-> Ok(cls)]
    /\ calls' = calls + 1
    /\ UNCHANGED << instances, fs, argv, pc, args, idx, all_data, errors, data,
                    reporter, report_data, table, exc, stdout, stderr, exit_code >>

CreateCall ==
    /\ pc = "call"
    /\ calls <= MaxRegister
    /\ \E name \in FactoryNames :
        LET r == create(reporters, name, instances) IN
        /\ result' = [fn |-> "create", arg |-> name, ret |-> r]
        /\ instances' = IF r.ok THEN instances + 1 ELSE instances
    /\ calls' = calls + 1
    /\ UNCHANGED << reporters, fs, argv, pc, args, idx, all_data, errors, data,
                    reporter, report_data, table, exc, stdout, stderr, exit_code >>

NextFactory == RegisterCall \/ CreateCall

SpecFactory == InitFactory /\ [][NextFactory]_vars

-----------------------------------------------------------------------------
(* Claims about generate, under SpecGen *)

GenDone == result.fn = "generate"
GenOk == GenDone /\ result.ret.ok

CountryOf(row) == DictGet(row, COUNTRY)
RowsOf(rows, c) == {j \in 1..Len(rows) : CountryOf(rows[j]) = c}
GdpOf(row) == FloatLiterals[DictGet(row, GDP).v[1]]
FirstSeen(rows, c) == CHOOSE j \in RowsOf(rows, c) : \A k \in RowsOf(rows, c) : j <= k

RECURSIVE Total(_, _)
Total(rows, J) ==
    IF J = {} THEN 0
    ELSE LET j == CHOOSE k \in J : TRUE IN GdpOf(rows[j]).num + Total(rows, J \ {j})

\* avg is the sum of the gdp values of the rows of country c over their number
IsMean(avg, rows, c) ==
    LET J == RowsOf(rows, c) IN
    IF \E j \in J : GdpOf(rows[j]).nan THEN avg.nan
    ELSE ~avg.nan /\ avg.num * Cardinality(J) = Total(rows, J) * avg.den

\* C1: when generate succeeds, the report has exactly one row per distinct
\* country of the dataset and no other row, and each row's average is the sum
\* of that country's gdp values divided by their number.
C1_OneMeanPerCountry ==
    GenOk =>
        LET rows == result.arg
            rep == result.ret.value
            countries == {CountryOf(rows[j]) : j \in 1..Len(rows)}
        IN /\ {rep[i][1] : i \in 1..Len(rep)} = countries
           /\ Len(rep) = Cardinality(countries)
           /\ \A i \in 1..Len(rep) : IsMean(rep[i][2], rows, rep[i][1])

\* a dataset of three rows, two of one country, whose mean is neither value
C1_Witness ==
    /\ GenOk
    /\ Len(result.arg) = 3
    /\ Len(result.ret.value) = 2
    /\ \E i \in 1..2 : LET a == result.ret.value[i][2] IN ~a.nan /\ a.den = 2 /\ a.num % 2 = 1

\* C2: the report is ordered by average descending and the sort is stable:
\* no row has a smaller average than a later row, and of two rows with equal
\* averages the country seen first in the dataset comes first.
C2_DescendingStable ==
    GenOk =>
        LET rows == result.arg
            rep == result.ret.value
        IN \A i, j \in 1..Len(rep) :
              i < j =>
                 /\ ~FLt(rep[i][2], rep[j][2])
                 /\ FEq(rep[i][2], rep[j][2])
                       => FirstSeen(rows, rep[i][1]) < FirstSeen(rows, rep[j][1])

\* C2, on the datasets none of whose averages is a NaN
C2_DescendingStableNoNaN ==
    (GenOk /\ \A i \in 1..Len(result.ret.value) : ~result.ret.value[i][2].nan)
        => C2_DescendingStable

LacksKey(row) == ~DictHas(row, COUNTRY) \/ ~DictHas(row, GDP)
Unparseable(row) == ~LacksKey(row) /\ ~float(DictGet(row, GDP)).ok
First(S) == CHOOSE j \in S : \A k \in S : j <= k

\* C5 as claimed: whenever some row lacks the country or the gdp key,
\* generate fails with SchemaError, whatever the other rows hold.
C5_SchemaErrorWhateverOthers ==
    (GenDone /\ \E j \in 1..Len(result.arg) : LacksKey(result.arg[j]))
        => (~result.ret.ok /\ result.ret = SchemaError)

\* C5 as amended: whenever some row lacks the country or the gdp key, generate
\* fails and returns nothing; the rows are checked in order, so the failure is
\* SchemaError when the gdp cell of every row before the first such row
\* parses, and InvalidValue for the first row whose gdp cell does not parse
\* otherwise.
C5_FirstOffendingRow ==
    (GenDone /\ \E j \in 1..Len(result.arg) : LacksKey(result.arg[j]))
        => LET rows == result.arg
               j0 == First({j \in 1..Len(rows) : LacksKey(rows[j])})
               bad == {k \in 1..(j0 - 1) : Unparseable(rows[k])}
           IN /\ ~result.ret.ok
              /\ result.ret.type = "ValueError"
              /\ IF bad = {} THEN result.ret = SchemaError
                 ELSE result.ret = InvalidValue(rows[First(bad)])

\* the third row is the first to lack a key and generate fails with SchemaError
C5_Witness ==
    /\ GenDone
    /\ Len(result.arg) = 3
    /\ LacksKey(result.arg[3]) /\ ~LacksKey(result.arg[1]) /\ ~LacksKey(result.arg[2])
    /\ ~result.ret.ok
    /\ result.ret = SchemaError

-----------------------------------------------------------------------------
(* Claims about read_csv_file, under SpecCsv *)

ReadDone == result.fn = "read_csv_file"
TheFile == fs[CsvPath]

\* every line of the file is a data record: the first is no list of column names
Headerless(f) == f.kind = "text" /\ f.records # <<>> /\ Head(f.records) = DataLine

\* C6: read_csv_file on a header-less file fails with the headers-missing
\* error and with no other.
C6_HeaderlessNoHeaders ==
    (ReadDone /\ Headerless(TheFile)) => (~result.ret.ok /\ result.ret = NoHeaders(CsvPath))

\* the file has a non-empty header and csv.reader raises on none of its lines
Readable(f) ==
    /\ f.kind = "text"
    /\ f.records # <<>>
    /\ Head(f.records) # <<>>
    /\ \A i \in 1..Len(f.records) : f.records[i] # OverlongRecord

BlankCells(rec) == \A i \in 1..Len(rec) : rec[i] = ""
NotBlankCells(rec) == ~BlankCells(rec)

\* C7: for a file with a non-empty header read_csv_file returns, in file order,
\* exactly the data rows that are not blank, a row being blank if and only if
\* every one of its cells is the empty string; it fails with EmptyDataset if
\* and only if no row remains, and never returns an empty dataset.
C7_BlankRowsSkipped ==
    (ReadDone /\ Readable(TheFile)) =>
        LET kept == SelectSeq(Tail(TheFile.records), NotBlankCells) IN
        IF kept = <<>> THEN ~result.ret.ok /\ result.ret = EmptyDataset(CsvPath)
        ELSE /\ result.ret.ok
             /\ result.ret.value = [i \in 1..Len(kept) |-> dict_row(Head(TheFile.records), kept[i])]

\* C7, on the files whose column names are distinct and every line of which
\* has as many cells as the header, or none
C7_BlankRowsSkippedRectangular ==
    (ReadDone /\ Readable(TheFile)
       /\ (\A i, j \in 1..Len(Head(TheFile.records)) :
              i # j => Head(TheFile.records)[i] # Head(TheFile.records)[j])
       /\ (\A n \in 2..Len(TheFile.records) :
              Len(TheFile.records[n]) \in {0, Len(Head(TheFile.records))}))
        => C7_BlankRowsSkipped

-----------------------------------------------------------------------------
(* Claims about ReporterFactory, under SpecFactory *)

Registered(registry) == {registry[i].k : i \in 1..Len(registry)}

\* C10: after any sequence of register calls, create(name) fails with
\* UnknownReport, its message listing every registered name, exactly when name
\* is not registered; otherwise it returns a fresh instance of the class
\* registered under name; and create never changes the registry.
C10_CreateContract ==
    [][ /\ (result'.fn = "register" /\ calls' = calls + 1) =>
            \A n \in FactoryNames :
               /\ DictHas(reporters', n) <=> (DictHas(reporters, n) \/ n = result'.arg)
               /\ DictHas(reporters', n) =>
                     DictGet(reporters', n) = IF n = result'.arg THEN result'.ret.value
                                              ELSE DictGet(reporters, n)
        /\ (result'.fn = "create" /\ calls' = calls + 1) =>
            /\ reporters' = reporters
            /\ IF result'.arg \notin Registered(reporters)
               THEN /\ ~result'.ret.ok
                    /\ result'.ret.type = "ValueError"
                    /\ result'.ret.msg[1][1] = "Unknown report '"
                    /\ result'.ret.msg[1][2] = result'.arg
                    /\ \A n \in Registered(reporters) :
                          \E j \in 4..Len(result'.ret.msg[1]) : result'.ret.msg[1][j] = n
                    /\ instances' = instances
               ELSE /\ result'.ret.ok
                    /\ result'.ret.value.cls = DictGet(reporters, result'.arg)
                    /\ result'.ret.value.id > instances
                    /\ instances' = result'.ret.value.id
      ]_vars

\* create of an unregistered name after a second name was registered
C10_Witness ==
    /\ result.fn = "create"
    /\ ~result.ret.ok
    /\ Len(reporters) = 2
    /\ DictGet(reporters, "average-gdp") = "TopGDPReporter"

-----------------------------------------------------------------------------
(* Claims about read_csv_files and main, under Spec *)

Parsed == args.files # None
Paths == args.files.v
Fails(p) == ~read_csv_file(fs, p).ok
Failing(paths) == SelectSeq(paths, Fails)

\* line is the entry of the failing path p
EntryFor(p, line) ==
    /\ Len(line) >= 2
    /\ line[1] = IF fs[p].kind = "missing" THEN "File not found: " ELSE "Error reading "
    /\ line[2] = p

\* read_csv_files raised its ValueError / returned
ReadRaised == pc \in {"except", "exited"} /\ data = None /\ ~exc.ok /\ exc.type = "ValueError"
ReadReturned == data # None

\* C3: read_csv_files never short-circuits: it takes every path, also after a
\* failure; if a path failed it returns no dataset and raises one error with
\* exactly one entry per failing path, one per line, in the order of the
\* paths, "File not found" for a missing file and "Error reading" otherwise.
C3_AllPathsAllFailures ==
    Parsed =>
        LET seen == Failing(SubSeq(Paths, 1, idx)) IN
        /\ Len(errors) = Len(seen)
        /\ \A i \in 1..Len(errors) : Len(errors[i]) = 1 /\ EntryFor(seen[i], errors[i][1])
        /\ (ReadRaised \/ ReadReturned) => idx = Len(Paths)
        /\ Failing(Paths) # <<>> => ~ReadReturned
        /\ ReadRaised =>
              /\ seen # <<>>
              /\ Len(exc.msg) = Len(seen)
              /\ \A i \in 1..Len(seen) : EntryFor(seen[i], exc.msg[i])

\* a missing file, then a file that loads, then a file with no data rows
C3_Witness ==
    /\ Parsed
    /\ ReadRaised
    /\ Paths = <<"missing.csv", "a.csv", "empty.csv">>
    /\ Len(exc.msg) = 2

RowsIn(p) == read_csv_file(fs, p).value
RECURSIVE Offset(_, _)
Offset(paths, i) == IF i <= 1 THEN 0 ELSE Offset(paths, i - 1) + Len(RowsIn(paths[i - 1]))

\* C4: when every path loads, read_csv_files returns the rows of the files in
\* the order of the paths and, within a file, in the order of the file: as
\* many rows as the files hold together, none dropped, none merged.
C4_ConcatenationInOrder ==
    (Parsed /\ ReadReturned) =>
        /\ Len(data.v) = Offset(Paths, Len(Paths) + 1)
        /\ \A i \in 1..Len(Paths) :
              \A j \in 1..Len(RowsIn(Paths[i])) :
                 data.v[Offset(Paths, i) + j] = RowsIn(Paths[i])[j]

\* two files given against the order of their names, one of them twice
C4_Witness ==
    /\ Parsed
    /\ ReadReturned
    /\ Paths = <<"b.csv", "a.csv", "b.csv">>
    /\ Len(data.v) = 4

Last(s) == s[Len(s)]
ReportPrinted == \E i \in 1..Len(stdout) : stdout[i].what = "report"
HelpPrinted == \E i \in 1..Len(stdout) : stdout[i].what = "help"
Failed == ~exc.ok /\ ~(exc.type = "SystemExit" /\ exc.code = 0)
Diagnostic(text) ==
    \/ text = Cancelled
    \/ text[1] # <<>> /\ text[1][1] \in {"Error: ", "Unexpected error: ", Usage[1]}

\* C8: no partial report is printed: the table reaches standard output only
\* after parsing, loading every file, creating the reporter, generate and
\* format have succeeded, in that order; when a step fails nothing is written
\* to standard output and a diagnostic is written to standard error.
C8_NoPartialReport ==
    /\ ReportPrinted =>
          /\ exc = NoExc
          /\ parse_arguments(argv, reporters).ok /\ args = parse_arguments(argv, reporters).value
          /\ idx = Len(Paths) /\ errors = <<>> /\ data = List(all_data)
          /\ reporter.cls = "AverageGDPReporter"
          /\ generate(data.v).ok /\ report_data = generate(data.v).value
          /\ table = format(report_data)
          /\ stdout = << [what |-> "report", body |-> table] >>
    /\ (pc = "exited" /\ Failed) =>
          /\ stdout = <<>>
          /\ stderr # <<>>
          /\ Diagnostic(Last(stderr))

\* a run that loaded its files and failed in generate
C8_Witness ==
    /\ pc = "exited"
    /\ Failed
    /\ data # None
    /\ reporter # NoReporter
    /\ exc = SchemaError

BadOption(o) ==
    \/ o.opt = "--files" /\ o.vals = <<>>
    \/ o.opt = "--report" /\ o.vals[1] \notin Registered(reporters)
Given(opt) == \E i \in 1..Len(argv) : argv[i].opt = opt
HelpAsked ==
    \E i \in 1..Len(argv) : argv[i].opt = "-h" /\ \A k \in 1..(i - 1) : ~BadOption(argv[k])
UsageBad ==
    /\ ~HelpAsked
    /\ \/ (\E i \in 1..Len(argv) : BadOption(argv[i]))
       \/ ~Given("--files")
       \/ ~Given("--report")
Interrupted == ~exc.ok /\ exc.type = "KeyboardInterrupt"
NoFileRead == idx = 0 /\ all_data = <<>> /\ errors = <<>> /\ data = None
PipelineCompleted == exc = NoExc /\ stdout = << [what |-> "report", body |-> table] >>

\* the part of C9 that stands: one exit code per run, fixed by the first
\* failing step
ExitCodeOfFirstFailure ==
    /\ pc # "exited" => exit_code = <<>>
    /\ pc = "exited" =>
          /\ Len(exit_code) = 1
          /\ (UsageBad /\ ~Interrupted) => (exit_code[1] = 2 /\ NoFileRead)
          /\ Interrupted => exit_code[1] = 130
          /\ (~exc.ok /\ exc.type = "ValueError") => exit_code[1] = 1
          /\ (~exc.ok /\ IsException(exc.type)) => exit_code[1] = 1
          /\ (~UsageBad /\ ~HelpAsked /\ ~Interrupted /\ Failing(Paths) # <<>>) => exit_code[1] = 1
          /\ (ReadReturned /\ ~Interrupted /\ ~generate(data.v).ok) => exit_code[1] = 1
          /\ exit_code[1] \in {0, 1, 2, 130}

\* C9 as claimed: ... and the exit code is 0 only when the whole pipeline
\* completed.
C9_ZeroOnlyWhenCompleted ==
    /\ ExitCodeOfFirstFailure
    /\ (pc = "exited" /\ exit_code[1] = 0) => PipelineCompleted

\* C9 as amended: every run ends with exactly one exit code: 2 for an
\* argument-parsing failure, before any file is read; 1 for a caught
\* application failure and for any other unexpected failure; 130 for a user
\* interrupt; and 0 only when the whole pipeline completed or when -h was
\* given before any invalid option, in which case the help is printed and no
\* file is read.
C9_ZeroWhenCompletedOrHelp ==
    /\ ExitCodeOfFirstFailure
    /\ (pc = "exited" /\ exit_code[1] = 0) =>
          \/ PipelineCompleted
          \/ HelpAsked /\ HelpPrinted /\ NoFileRead

\* a run interrupted while it was loading its second file
C9_Witness ==
    /\ pc = "exited"
    /\ Interrupted
    /\ Parsed
    /\ idx = 1
    /\ Len(Paths) = 2
    /\ exit_code = <<130>>

====
